---- MODULE Spec2Model ----
(***************************************************************************)
(* DayFlow timeline builder (dostaldigital/dayflow).                       *)
(*                                                                         *)
(* The model follows the DayFlowPreview component of src/unnamed/part_000  *)
(* (the variant with item drags, zoom and lane layout); the older variant  *)
(* src/src/DayFlowPreview.tsx shares minutesBetween, clamp, the pointer    *)
(* conversion, the snap and upsertItem/deleteItem verbatim.                *)
(*                                                                         *)
(* Units.  Clock times "HH:mm" are pairs <<h, m>>.  Pixels are integers;   *)
(* pxPerMin moves in steps of 0.5, so the model keeps pxPerMin2, twice the *)
(* source's pxPerMin.  Item ids (random strings in the source) are         *)
(* positive integers; 0 stands for null.  A value of type T | null is a    *)
(* sequence of length at most one.                                         *)
(***************************************************************************)
EXTENDS Integers, Sequences, FiniteSets, TLC

VARIABLES
    startTime,       \* useState("11:00")
    endTime,         \* useState("20:00")
    totalMinutes,    \* useMemo over startTime, endTime
    slotSize,        \* useState(15)
    snap,            \* useState(true)
    pxPerMin2,       \* 2 * pxPerMin
    items,           \* useState<Item[]>([])
    selected,        \* useState<Item | null>(null): <<>> or <<item>>
    draggingPreset,  \* useState<PresetDef | null>(null): <<>> or <<key>>
    draggingItemId,  \* useState<string | null>(null): 0 or an id
    dragActive,      \* DndContext: a drag is under way
    grid,            \* time-grid functions applied to drawn inputs
    lanes,           \* laneLayout applied to a drawn item list
    steps,           \* handlers run so far
    demoMode,        \* useState(true), no setter
    date,            \* useState(format(new Date(), "yyyy-MM-dd"))
    alerted,         \* the window.alert message of the handler that ran last
    downloaded,      \* the file the handler that ran last handed to a.click()
    icsJobs,         \* exportICS calls suspended on await import("ics")
    storage,         \* localStorage["dayflow.plan"]: <<>> or <<raw>>
    plan             \* savePlan and loadPlan applied to a drawn state

vars == <<startTime, endTime, totalMinutes, slotSize, snap, pxPerMin2, items,
          selected, draggingPreset, draggingItemId, dragActive, grid, lanes,
          steps, demoMode, date, alerted, downloaded, icsJobs, storage, plan>>

(***************************************************************************)
(* Bounds of the model                                                     *)
(***************************************************************************)
\* The demo cap on the item count: 100 in part_000 (line 281), 6 in
\* DayFlowPreview.tsx (line 175); scaled down here.
MaxItems == 2
\* Handlers run in one behaviour of Spec.
MaxSteps == 7
\* Longest item list handed to laneLayout in LaneSpec.
MaxLaneItems == 3

\* Ids uuid() draws from: one more than every id that can be referenced.
IdPool == 1..(MaxItems + 2)

\* Largest pxPerMin2 drawn in GridSpec (zoom moves within 2..12, fitToViewport
\* goes beyond on a tall window).
MaxPx2 == 13
\* SnapSpec snaps every offset in -SnapRange..SnapRange.
SnapRange == 125

\* Settings panel inputs.
ClockTimes == {<<0, 0>>, <<11, 0>>, <<20, 0>>}
SlotSizes == {5, 10, 15, 30, 45, 60}
\* window.innerHeight values read by fitToViewport.
ViewportHeights == {500, 1440}

\* Pointer positions of a drop, pointerY - rect.top, in pixels.
PointerYs == {-40, 275, 100000}

(***************************************************************************)
(* Catalogues (a part of PRESETS and of FAVORITE_PALETTES)                  *)
(***************************************************************************)
PresetKeys == {"ceremony", "fd-dance"}

PRESETS ==
    [k \in PresetKeys |->
        IF k = "ceremony"
        THEN [label |-> "Ceremony", standardMin |-> 30, color |-> "#01363b"]
        ELSE [label |-> "Father/Daughter Dance", standardMin |-> 5,
              color |-> "#8F7A4A"]]

FAVORITE_PALETTES == << <<"#2D5D7B", "#9DB6C6", "#D5C5A1">> >>

(***************************************************************************)
(* Utils                                                                   *)
(***************************************************************************)
Min(a, b) == IF a <= b THEN a ELSE b

Max(a, b) == IF a >= b THEN a ELSE b

\* Math.round(a / b) for b > 0: floor(a / b + 1/2), a tie going up.
Round(a, b) == (2 * a + b) \div (2 * b)

minutesBetween(start, end) == end[1] * 60 + end[2] - (start[1] * 60 + start[2])

clamp(n, min, max) == Max(min, Min(max, n))

\* A variant of totalMinutesOf that caps the day but forgets the one-hour floor.
totalMinutesOfNoFloor(start, end) == Min(18 * 60, minutesBetween(start, end))

\* The useMemo of totalMinutes.
totalMinutesOf(start, end) == clamp(minutesBetween(start, end), 60, 18 * 60)

\* fitToViewport's new pxPerMin (doubled) for window.innerHeight = innerHeight.
fitPxPerMin2(innerHeight, total) ==
    LET h == Max(420, (3 * innerHeight) \div 4)
    IN  2 * Max(1, h \div Max(60, total))

\* A variant of toOffsetMinutes that does not clamp the pointer to the grid.
toOffsetMinutesUnclamped(py, total, px2) == Round(2 * py, px2)

\* handleDragEnd, the pointer conversion: relY = max(0, min(gridHeight, py)),
\* offsetMin = Math.round(relY / pxPerMin).  gridHeight = total * pxPerMin;
\* both relY and pxPerMin are doubled here, which leaves the quotient as is.
toOffsetMinutes(py, total, px2) ==
    LET relY2 == Max(0, Min(total * px2, 2 * py))
    IN  Round(relY2, px2)

\* A variant of snapOffset that always moves on to the next slot.
snapOffsetNextSlot(offsetMin, slot) == ((offsetMin \div slot) + 1) * slot

\* A variant of snapOffset that uses Math.floor for Math.round.
snapOffsetFloor(offsetMin, slot) == (offsetMin \div slot) * slot

\* handleDragEnd, the snap: Math.round(offsetMin / slotSize) * slotSize.
snapOffset(offsetMin, slot) == Round(offsetMin, slot) * slot

\* A variant of dropOffset that never snaps.
dropOffsetUnsnapped(py) == toOffsetMinutes(py, totalMinutes, pxPerMin2)

\* The offset a drop at py stores, under the current settings.
dropOffset(py) ==
    LET offsetMin == toOffsetMinutes(py, totalMinutes, pxPerMin2)
    IN  IF snap THEN snapOffset(offsetMin, slotSize) ELSE offsetMin

\* uuid(): an id no item, editor copy or drag marker refers to.
UsedIds ==
    {items[i].id : i \in DOMAIN items}
        \cup {selected[i].id : i \in DOMAIN selected}
        \cup {draggingItemId}

uuid == CHOOSE id \in IdPool : id \notin UsedIds /\ \A j \in IdPool : j \notin UsedIds => id <= j

(***************************************************************************)
(* State updaters of handleDragEnd, upsertItem, deleteItem, applyPalette   *)
(***************************************************************************)
newItemOf(key, offsetMin) ==
    [id |-> uuid,
     title |-> PRESETS[key].label,
     startMin |-> offsetMin,
     durationMin |-> PRESETS[key].standardMin,
     color |-> PRESETS[key].color,
     notes |-> ""]

\* prev => demoMode && prev.length >= cap ? prev : [...prev, newItem]
insertItem(prev, newItem) ==
    IF demoMode /\ Len(prev) >= MaxItems THEN prev ELSE Append(prev, newItem)

\* prev.map(i => i.id === id ? {...i, startMin: clamp(...)} : i)
moveItem(prev, id, offsetMin) ==
    [k \in DOMAIN prev |->
        IF prev[k].id = id
        THEN [prev[k] EXCEPT !.startMin =
                 clamp(offsetMin, 0, Max(0, totalMinutes - prev[k].durationMin))]
        ELSE prev[k]]

\* A variant of replaceItem that forgets the test on the id.
replaceItemEvery(prev, u) == [k \in DOMAIN prev |-> u]

\* prev.map(i => i.id === u.id ? u : i)
replaceItem(prev, u) ==
    [k \in DOMAIN prev |-> IF prev[k].id = u.id THEN u ELSE prev[k]]

\* prev.filter(i => i.id !== id)
filterOut(prev, id) == SelectSeq(prev, LAMBDA i : i.id # id)

\* prev.map((it, idx) => ({...it, color: colors[idx % colors.length]}))
recolor(prev, colors) ==
    [k \in DOMAIN prev |->
        [prev[k] EXCEPT !.color = colors[((k - 1) % Len(colors)) + 1]]]

(***************************************************************************)
(* Lane layout (the useMemo laneLayout)                                    *)
(***************************************************************************)
\* A variant of cmpItems that breaks a tie on the start by the shorter first.
cmpItemsShorterFirst(a, b) ==
    IF a.startMin - b.startMin # 0
    THEN a.startMin - b.startMin
    ELSE a.durationMin - b.durationMin

\* The comparator of the sort: a.startMin - b.startMin || b.durationMin - a.durationMin.
cmpItems(a, b) ==
    IF a.startMin - b.startMin # 0
    THEN a.startMin - b.startMin
    ELSE b.durationMin - a.durationMin

\* Array.prototype.sort is stable: x goes before the first element that the
\* comparator puts after it.
RECURSIVE insertSorted(_, _)
insertSorted(sorted, x) ==
    IF sorted = <<>> THEN <<x>>
    ELSE IF cmpItems(Head(sorted), x) > 0 THEN <<x>> \o sorted
    ELSE <<Head(sorted)>> \o insertSorted(Tail(sorted), x)

RECURSIVE sortItems(_)
sortItems(list) ==
    IF list = <<>> THEN <<>>
    ELSE insertSorted(sortItems(SubSeq(list, 1, Len(list) - 1)), list[Len(list)])

\* A variant of findLane that takes the last lane that is free, not the first.
findLaneLast(laneEnds, startMin) ==
    IF \E k \in DOMAIN laneEnds : laneEnds[k] <= startMin
    THEN (CHOOSE k \in DOMAIN laneEnds :
              /\ laneEnds[k] <= startMin
              /\ \A j \in DOMAIN laneEnds : laneEnds[j] <= startMin => j <= k) - 1
    ELSE -1

\* laneEnds.findIndex(end => end <= startMin), lanes counted from 0; -1: none.
findLane(laneEnds, startMin) ==
    IF \E k \in DOMAIN laneEnds : laneEnds[k] <= startMin
    THEN (CHOOSE k \in DOMAIN laneEnds :
              /\ laneEnds[k] <= startMin
              /\ \A j \in DOMAIN laneEnds : laneEnds[j] <= startMin => k <= j) - 1
    ELSE -1

\* A variant of placeItem that reuses a lane without moving its end.
placeItemStaleEnd(st, it) ==
    LET lane == findLane(st.laneEnds, it.startMin)
    IN  IF lane = -1
        THEN [laneEnds |-> Append(st.laneEnds, it.startMin + it.durationMin),
              placed |-> Append(st.placed, [id |-> it.id, lane |-> Len(st.laneEnds)])]
        ELSE [laneEnds |-> st.laneEnds,
              placed |-> Append(st.placed, [id |-> it.id, lane |-> lane])]

\* A variant of placeItem that asks for a gap before reusing a lane.
placeItemStrict(st, it) ==
    LET lane == findLane(st.laneEnds, it.startMin - 1)
    IN  IF lane = -1
        THEN [laneEnds |-> Append(st.laneEnds, it.startMin + it.durationMin),
              placed |-> Append(st.placed, [id |-> it.id, lane |-> Len(st.laneEnds)])]
        ELSE [laneEnds |-> [st.laneEnds EXCEPT ![lane + 1] =
                               it.startMin + it.durationMin],
              placed |-> Append(st.placed, [id |-> it.id, lane |-> lane])]

\* One turn of the loop over sorted.
placeItem(st, it) ==
    LET lane == findLane(st.laneEnds, it.startMin)
    IN  IF lane = -1
        THEN [laneEnds |-> Append(st.laneEnds, it.startMin + it.durationMin),
              placed |-> Append(st.placed, [id |-> it.id, lane |-> Len(st.laneEnds)])]
        ELSE [laneEnds |-> [st.laneEnds EXCEPT ![lane + 1] =
                               it.startMin + it.durationMin],
              placed |-> Append(st.placed, [id |-> it.id, lane |-> lane])]

RECURSIVE placeAll(_, _)
placeAll(st, sorted) ==
    IF sorted = <<>> THEN st
    ELSE placeAll(placeItem(st, Head(sorted)), Tail(sorted))

\* Object.fromEntries(placed.map(p => [p.id, p.lane])): the last entry of an id wins.
fromEntries(placed) ==
    [id \in {placed[k].id : k \in DOMAIN placed} |->
        LET last == CHOOSE k \in DOMAIN placed :
                        /\ placed[k].id = id
                        /\ \A j \in DOMAIN placed : placed[j].id = id => j <= k
        IN  placed[last].lane]

laneLayout(list) ==
    LET final == placeAll([laneEnds |-> <<>>, placed |-> <<>>], sortItems(list))
    IN  [lanesCount |-> Max(1, Len(final.laneEnds)),
         byId |-> fromEntries(final.placed)]

\* The day the page is opened on.
Today == "2025-06-14"
\* Values typed into the date field; "" is the cleared field.
DateInputs == {"", "2025-06-15"}

(***************************************************************************)
(* Dates (date-fns over the local-time Date, in a zone without clock       *)
(* changes).  A valid Date is its day number and its clock; parseISO of    *)
(* the cleared date field is the Invalid Date.                             *)
(***************************************************************************)
\* Days since 1970-01-01 of the dates the date field takes.
DayNumber == [d \in {"2025-06-14", "2025-06-15"} |->
                 IF d = "2025-06-14" THEN 20253 ELSE 20254]

InvalidDate == [valid |-> FALSE]

\* The Date constructor's carry: minutes over 59 go to the hour, hours over
\* 23 to the day.
makeDate(day, hours, minutes) ==
    LET total == hours * 60 + minutes
    IN  [valid |-> TRUE,
         day |-> day + total \div 1440,
         hours |-> (total % 1440) \div 60,
         minutes |-> total % 60]

\* parseISO(day + "T00:00:00")
parseISO(day) ==
    IF day \in DOMAIN DayNumber THEN makeDate(DayNumber[day], 0, 0)
    ELSE InvalidDate

isValid(dt) == dt.valid

\* new Date(): the clock is overwritten by every user before it is read.
newDate == makeDate(DayNumber[Today], 9, 41)

setHours(dt, h) ==
    IF dt.valid THEN makeDate(dt.day, h, dt.minutes) ELSE InvalidDate

setMinutes(dt, m) ==
    IF dt.valid THEN makeDate(dt.day, dt.hours, m) ELSE InvalidDate

addMinutes(dt, n) ==
    IF dt.valid THEN makeDate(dt.day, dt.hours, dt.minutes + n) ELSE InvalidDate

\* format(dt, "h:mm a") of a valid Date: the 12-hour clock.
formatClock(dt) ==
    [hour |-> IF dt.hours % 12 = 0 THEN 12 ELSE dt.hours % 12,
     minute |-> dt.minutes,
     meridiem |-> IF dt.hours < 12 THEN "AM" ELSE "PM"]

\* A variant of timeLabelFromOffset that sets the minutes before the hour, as
\* exportICS does, and so loses the carry.
timeLabelMinutesFirst(day, start, offsetMin) ==
    LET dt0 == IF isValid(parseISO(day)) THEN parseISO(day) ELSE newDate
    IN  formatClock(setHours(setMinutes(dt0, start[2] + offsetMin), start[1]))

timeLabelFromOffset(day, start, offsetMin) ==
    LET dt0 == IF isValid(parseISO(day)) THEN parseISO(day) ELSE newDate
        dt1 == setHours(dt0, start[1])
        dt2 == setMinutes(dt1, start[2] + offsetMin)
    IN  formatClock(dt2)

(***************************************************************************)
(* Initial state: the useState defaults, after the mount effect has run    *)
(* fitToViewport.                                                          *)
(***************************************************************************)
NoGrid == [phase |-> "off"]

NoLanes == [phase |-> "off"]

NoPlan == [phase |-> "off"]

Init ==
    /\ startTime = <<11, 0>>
    /\ endTime = <<20, 0>>
    /\ totalMinutes = totalMinutesOf(<<11, 0>>, <<20, 0>>)
    /\ slotSize = 15
    /\ snap = TRUE
    /\ \E h \in ViewportHeights :
           pxPerMin2 = fitPxPerMin2(h, totalMinutesOf(<<11, 0>>, <<20, 0>>))
    /\ items = <<>>
    /\ selected = <<>>
    /\ draggingPreset = <<>>
    /\ draggingItemId = 0
    /\ dragActive = FALSE
    /\ grid = NoGrid
    /\ lanes = NoLanes
    /\ steps = 0
    /\ demoMode = TRUE
    /\ date = Today
    /\ alerted = ""
    /\ downloaded = <<>>
    /\ icsJobs = <<>>
    /\ storage = <<>>
    /\ plan = NoPlan

\* One more handler runs.
Tick == steps < MaxSteps /\ steps' = steps + 1

\* The handler shows no alert and downloads nothing; it does not touch the
\* date, the suspended exports or localStorage.
silent ==
    /\ alerted' = ""
    /\ downloaded' = <<>>
    /\ UNCHANGED <<demoMode, date, icsJobs, storage, plan>>

(***************************************************************************)
(* SettingsPanel                                                           *)
(***************************************************************************)
\* The effect on [totalMinutes] runs fitToViewport when the memo changes.
AfterTimes(h) ==
    /\ totalMinutes' = totalMinutesOf(startTime', endTime')
    /\ pxPerMin2' = IF totalMinutes' # totalMinutes
                    THEN fitPxPerMin2(h, totalMinutes')
                    ELSE pxPerMin2

SetStartTime(t, h) ==
    /\ Tick
    /\ silent
    /\ startTime' = t
    /\ endTime' = endTime
    /\ AfterTimes(h)
    /\ UNCHANGED <<slotSize, snap, items, selected, draggingPreset,
                   draggingItemId, dragActive, grid, lanes>>

SetEndTime(t, h) ==
    /\ Tick
    /\ silent
    /\ endTime' = t
    /\ startTime' = startTime
    /\ AfterTimes(h)
    /\ UNCHANGED <<slotSize, snap, items, selected, draggingPreset,
                   draggingItemId, dragActive, grid, lanes>>

SetSlotSize(s) ==
    /\ Tick
    /\ silent
    /\ slotSize' = s
    /\ UNCHANGED <<startTime, endTime, totalMinutes, snap, pxPerMin2, items,
                   selected, draggingPreset, draggingItemId, dragActive, grid,
                   lanes>>

SetSnap(b) ==
    /\ Tick
    /\ silent
    /\ snap' = b
    /\ UNCHANGED <<startTime, endTime, totalMinutes, slotSize, pxPerMin2, items,
                   selected, draggingPreset, draggingItemId, dragActive, grid,
                   lanes>>

\* setPxPerMin(p => Math.min(6, p + 0.5))
ZoomIn ==
    /\ Tick
    /\ silent
    /\ pxPerMin2' = Min(12, pxPerMin2 + 1)
    /\ UNCHANGED <<startTime, endTime, totalMinutes, slotSize, snap, items,
                   selected, draggingPreset, draggingItemId, dragActive, grid,
                   lanes>>

\* setPxPerMin(p => Math.max(1, p - 0.5))
ZoomOut ==
    /\ Tick
    /\ silent
    /\ pxPerMin2' = Max(2, pxPerMin2 - 1)
    /\ UNCHANGED <<startTime, endTime, totalMinutes, slotSize, snap, items,
                   selected, draggingPreset, draggingItemId, dragActive, grid,
                   lanes>>

FitToViewport(h) ==
    /\ Tick
    /\ silent
    /\ pxPerMin2' = fitPxPerMin2(h, totalMinutes)
    /\ UNCHANGED <<startTime, endTime, totalMinutes, slotSize, snap, items,
                   selected, draggingPreset, draggingItemId, dragActive, grid,
                   lanes>>

(***************************************************************************)
(* Drag and drop                                                           *)
(***************************************************************************)
\* handleDragStart on a DraggablePreset: data = {preset}.
HandleDragStartPreset(key) ==
    /\ Tick
    /\ silent
    /\ ~dragActive
    /\ dragActive' = TRUE
    /\ draggingPreset' = <<key>>
    /\ UNCHANGED <<startTime, endTime, totalMinutes, slotSize, snap, pxPerMin2,
                   items, selected, draggingItemId, grid, lanes>>

\* handleDragStart on a DraggableTimelineItem: data = {itemId}.
HandleDragStartItem(k) ==
    /\ Tick
    /\ silent
    /\ ~dragActive
    /\ k \in DOMAIN items
    /\ dragActive' = TRUE
    /\ draggingItemId' = items[k].id
    /\ UNCHANGED <<startTime, endTime, totalMinutes, slotSize, snap, pxPerMin2,
                   items, selected, draggingPreset, grid, lanes>>

\* The two setItems updaters of handleDragEnd, in the order they are queued.
afterDrop(prev, offsetMin) ==
    LET inserted == IF draggingPreset # <<>>
                    THEN insertItem(prev, newItemOf(draggingPreset[1], offsetMin))
                    ELSE prev
    IN  IF draggingItemId # 0
        THEN moveItem(inserted, draggingItemId, offsetMin)
        ELSE inserted

HandleDragEnd(py) ==
    /\ Tick
    /\ silent
    /\ dragActive
    \* With the demo cap off the list is unbounded; the model stops at MaxItems.
    /\ (demoMode \/ draggingPreset = <<>> \/ Len(items) < MaxItems)
    /\ dragActive' = FALSE
    /\ items' = afterDrop(items, dropOffset(py))
    /\ draggingPreset' = <<>>
    /\ draggingItemId' = 0
    /\ UNCHANGED <<startTime, endTime, totalMinutes, slotSize, snap, pxPerMin2,
                   selected, grid, lanes>>

\* The drag is cancelled (Escape, a lost pointer): DndContext has no
\* onDragCancel, so no handler of the component runs.
DragCancel ==
    /\ Tick
    /\ silent
    /\ dragActive
    /\ dragActive' = FALSE
    /\ UNCHANGED <<startTime, endTime, totalMinutes, slotSize, snap, pxPerMin2,
                   items, selected, draggingPreset, draggingItemId, grid, lanes>>

(***************************************************************************)
(* Editor modal                                                            *)
(***************************************************************************)
EditorTitles == {"Vows"}
EditorColors == {"#000000"}
EditorNotes == {"Bring rings"}
\* parseInt(e.target.value || "0") of the duration field.
DurationInputs == {0, 45, 5000}

editorFrame ==
    UNCHANGED <<startTime, endTime, totalMinutes, slotSize, snap, pxPerMin2,
                items, draggingPreset, draggingItemId, dragActive, grid, lanes>>

\* onClick of a timeline block: setSelected(it).
SelectItem(k) ==
    /\ Tick
    /\ silent
    /\ k \in DOMAIN items
    /\ selected' = <<items[k]>>
    /\ editorFrame

EditTitle(v) ==
    /\ Tick
    /\ silent
    /\ selected # <<>>
    /\ selected' = <<[selected[1] EXCEPT !.title = v]>>
    /\ editorFrame

EditStartTime(t) ==
    /\ Tick
    /\ silent
    /\ selected # <<>>
    /\ selected' =
         <<[selected[1] EXCEPT !.startMin =
               clamp(minutesBetween(startTime, t), 0,
                     Max(0, totalMinutes - selected[1].durationMin))]>>
    /\ editorFrame

EditDuration(v) ==
    /\ Tick
    /\ silent
    /\ selected # <<>>
    /\ selected' = <<[selected[1] EXCEPT !.durationMin = clamp(v, 5, 12 * 60)]>>
    /\ editorFrame

EditColor(c) ==
    /\ Tick
    /\ silent
    /\ selected # <<>>
    /\ selected' = <<[selected[1] EXCEPT !.color = c]>>
    /\ editorFrame

EditNotes(n) ==
    /\ Tick
    /\ silent
    /\ selected # <<>>
    /\ selected' = <<[selected[1] EXCEPT !.notes = n]>>
    /\ editorFrame

\* Save: upsertItem(selected).
UpsertItem ==
    /\ Tick
    /\ silent
    /\ selected # <<>>
    /\ items' = replaceItem(items, selected[1])
    /\ selected' = <<>>
    /\ UNCHANGED <<startTime, endTime, totalMinutes, slotSize, snap, pxPerMin2,
                   draggingPreset, draggingItemId, dragActive, grid, lanes>>

\* Delete: deleteItem(selected.id).
DeleteItem ==
    /\ Tick
    /\ silent
    /\ selected # <<>>
    /\ items' = filterOut(items, selected[1].id)
    /\ selected' = <<>>
    /\ UNCHANGED <<startTime, endTime, totalMinutes, slotSize, snap, pxPerMin2,
                   draggingPreset, draggingItemId, dragActive, grid, lanes>>

\* Cancel, or a click on the backdrop: setSelected(null).
CloseEditor ==
    /\ Tick
    /\ silent
    /\ selected # <<>>
    /\ selected' = <<>>
    /\ editorFrame

(***************************************************************************)
(* Palettes                                                                *)
(***************************************************************************)
ApplyPalette(p) ==
    /\ Tick
    /\ silent
    /\ p \in DOMAIN FAVORITE_PALETTES
    /\ items' = recolor(items, FAVORITE_PALETTES[p])
    /\ UNCHANGED <<startTime, endTime, totalMinutes, slotSize, snap, pxPerMin2,
                   selected, draggingPreset, draggingItemId, dragActive, grid,
                   lanes>>

(***************************************************************************)
(* Header: date field, Load, Save, Text and .ics buttons                   *)
(***************************************************************************)
\* Suspended exportICS calls the model follows at once.
MaxIcsJobs == 1

\* What { error } of ics.createEvents holds: "" for no error.
EncodeOutcomes == {"", "Error: start is invalid"}

afterHeader ==
    UNCHANGED <<startTime, endTime, totalMinutes, slotSize, snap, pxPerMin2,
                items, selected, draggingPreset, draggingItemId, dragActive,
                grid, lanes, demoMode, plan>>

SetDate(d) ==
    /\ Tick
    /\ date' = d
    /\ alerted' = ""
    /\ downloaded' = <<>>
    /\ UNCHANGED <<icsJobs, storage>>
    /\ afterHeader

\* part_000: the Load button only alerts.
ClickLoad ==
    /\ Tick
    /\ alerted' = "Load coming soon"
    /\ downloaded' = <<>>
    /\ UNCHANGED <<date, icsJobs, storage>>
    /\ afterHeader

\* part_000: the Save button alerts in demo mode and does nothing otherwise.
ClickSave ==
    /\ Tick
    /\ alerted' = IF demoMode THEN "Sign in to save your plan." ELSE ""
    /\ downloaded' = <<>>
    /\ UNCHANGED <<date, icsJobs, storage>>
    /\ afterHeader

\* The sort of exportText: comparator a.startMin - b.startMin, stable.
RECURSIVE insertByStart(_, _)
insertByStart(sorted, x) ==
    IF sorted = <<>> THEN <<x>>
    ELSE IF Head(sorted).startMin - x.startMin > 0 THEN <<x>> \o sorted
    ELSE <<Head(sorted)>> \o insertByStart(Tail(sorted), x)

\* A variant of sortByStart that borrows the comparator of laneLayout, which
\* puts the longer of two items with one start first.
sortByStartLongerFirst(list) == sortItems(list)

RECURSIVE sortByStart(_)
sortByStart(list) ==
    IF list = <<>> THEN <<>>
    ELSE insertByStart(sortByStart(SubSeq(list, 1, Len(list) - 1)), list[Len(list)])

\* One entry of the text export: "<time> - <title> (<duration> min)" and the
\* Notes continuation when notes is not empty.
textLine(day, start, i) ==
    [time |-> timeLabelFromOffset(day, start, i.startMin),
     title |-> i.title,
     durationMin |-> i.durationMin,
     notes |-> i.notes]

\* exportText up to the Blob; format() of the header throws on an Invalid
\* Date, and then nothing is downloaded.
exportText ==
    LET sorted == sortByStart(items)
        lines == [k \in DOMAIN sorted |-> textLine(date, startTime, sorted[k])]
    IN  IF isValid(parseISO(date))
        THEN <<[kind |-> "text", name |-> date, lines |-> lines]>>
        ELSE <<>>

ClickText ==
    /\ Tick
    /\ alerted' = IF demoMode THEN "Subscribe to export." ELSE ""
    /\ downloaded' = IF demoMode THEN <<>> ELSE exportText
    /\ UNCHANGED <<date, icsJobs, storage>>
    /\ afterHeader

\* One event of exportICS.
icsEvent(day, start, i) ==
    LET startDate == parseISO(day)
        st == setHours(setMinutes(startDate, start[2] + i.startMin), start[1])
        en == addMinutes(st, i.durationMin)
    IN  [title |-> i.title,
         start |-> st,
         end |-> en,
         description |-> IF i.notes # "" THEN i.notes
                         ELSE "Created with DayFlow by Dostal Digital"]

\* A variant of boundState that reads the component's state when the export
\* resumes.
boundStateLive(job) == [items |-> items, startTime |-> startTime, date |-> date]

\* items, startTime and date as the suspended call sees them: the const
\* bindings of the render it was called in.
boundState(job) == job

\* A variant of afterEncode that does not look at error.
afterEncodeIgnoringError(error, job, events) ==
    [alerted |-> "",
     downloaded |-> <<[kind |-> "ics", name |-> job.date, events |-> events]>>]

\* exportICS after createEvents: alert and return on error, the download
\* otherwise.
afterEncode(error, job, events) ==
    IF error # ""
    THEN [alerted |-> error, downloaded |-> <<>>]
    ELSE [alerted |-> "",
          downloaded |-> <<[kind |-> "ics", name |-> job.date, events |-> events]>>]

\* The .ics button: exportICS runs up to await import("ics").
ClickICS ==
    /\ Tick
    /\ (demoMode \/ Len(icsJobs) < MaxIcsJobs)
    /\ alerted' = IF demoMode THEN "Subscribe to export .ics." ELSE ""
    /\ downloaded' = <<>>
    /\ icsJobs' = IF demoMode THEN icsJobs
                  ELSE Append(icsJobs, [items |-> items, startTime |-> startTime,
                                        date |-> date])
    /\ UNCHANGED <<date, storage>>
    /\ afterHeader

\* The import has resolved: exportICS runs to its end; error is what
\* ics.createEvents reports.
ResumeICS(error) ==
    /\ Tick
    /\ icsJobs # <<>>
    /\ LET job == boundState(Head(icsJobs))
           events == [k \in DOMAIN job.items |->
                         icsEvent(job.date, job.startTime, job.items[k])]
           out == afterEncode(error, job, events)
       IN  /\ alerted' = out.alerted
           /\ downloaded' = out.downloaded
    /\ icsJobs' = Tail(icsJobs)
    /\ UNCHANGED <<date, storage>>
    /\ afterHeader

(***************************************************************************)
(* Save and Load (DayFlowPreview.tsx, the variant with savePlan/loadPlan)  *)
(***************************************************************************)
\* JSON values: a tag and the value.
jstr(x) == [t |-> "string", v |-> x]

jnum(n) == [t |-> "number", v |-> n]

jbool(b) == [t |-> "boolean", v |-> b]

\* A variant of planOf that writes the two clock times under each other's key.
planOfTimesSwapped ==
    [date |-> date, startTime |-> endTime, endTime |-> startTime,
     slotSize |-> slotSize, snap |-> snap, items |-> items]

\* The object savePlan serialises.
planOf ==
    [date |-> date, startTime |-> startTime, endTime |-> endTime,
     slotSize |-> slotSize, snap |-> snap, items |-> items]

stringifyItem(i) ==
    [id |-> jstr(i.id), title |-> jstr(i.title), startMin |-> jnum(i.startMin),
     durationMin |-> jnum(i.durationMin), color |-> jstr(i.color),
     notes |-> jstr(i.notes)]

\* JSON.stringify of a plan.
stringify(p) ==
    [kind |-> "json",
     value |-> [date |-> jstr(p.date),
                startTime |-> jstr(p.startTime),
                endTime |-> jstr(p.endTime),
                slotSize |-> jnum(p.slotSize),
                snap |-> jbool(p.snap),
                items |-> [k \in DOMAIN p.items |-> stringifyItem(p.items[k])]]]

parseItem(j) ==
    [id |-> j.id.v, title |-> j.title.v, startMin |-> j.startMin.v,
     durationMin |-> j.durationMin.v, color |-> j.color.v, notes |-> j.notes.v]

\* What setDate receives when the stored object has no date key.
Undefined == "undefined"

\* JSON.parse of a stored plan, and the fields loadPlan reads from it.  A
\* missing date reads as undefined and missing items as [] (parsed.items ||
\* []); the stored objects of the model always carry the other four keys.
parsePlan(raw) ==
    [date |-> IF "date" \in DOMAIN raw.value THEN raw.value.date.v
              ELSE Undefined,
     startTime |-> raw.value.startTime.v,
     endTime |-> raw.value.endTime.v,
     slotSize |-> raw.value.slotSize.v,
     snap |-> raw.value.snap.v,
     items |-> IF "items" \in DOMAIN raw.value
               THEN [k \in DOMAIN raw.value.items |->
                        parseItem(raw.value.items[k])]
               ELSE <<>>]

\* The Save button of DayFlowPreview.tsx: the demo alert, or savePlan.
SavePlan ==
    /\ Tick
    /\ alerted' = IF demoMode THEN "Sign in to save your plan."
                  ELSE "Saved in this browser. (Preview)"
    /\ storage' = IF demoMode THEN storage ELSE <<stringify(planOf)>>
    /\ plan' = IF demoMode THEN plan
               ELSE [phase |-> "saved",
                     before |-> [date |-> date, startTime |-> startTime,
                                 endTime |-> endTime, totalMinutes |-> totalMinutes,
                                 slotSize |-> slotSize, snap |-> snap,
                                 items |-> items]]
    /\ downloaded' = <<>>
    /\ UNCHANGED <<startTime, endTime, totalMinutes, slotSize, snap, pxPerMin2,
                   items, selected, draggingPreset, draggingItemId, dragActive,
                   grid, lanes, demoMode, date, icsJobs>>

\* The Load button of DayFlowPreview.tsx: loadPlan.  No key changes nothing;
\* neither does a value JSON.parse throws on ("garbage") or the text null,
\* whose parsed.date throws: catch {} swallows both.  pxPerMin is a constant
\* there.
LoadPlan ==
    /\ Tick
    /\ IF storage = <<>> \/ storage[1].kind # "json"
       THEN UNCHANGED <<date, startTime, endTime, totalMinutes, slotSize, snap,
                        items, plan>>
       ELSE LET parsed == parsePlan(storage[1])
            IN  /\ date' = parsed.date
                /\ startTime' = parsed.startTime
                /\ endTime' = parsed.endTime
                /\ totalMinutes' = totalMinutesOf(parsed.startTime, parsed.endTime)
                /\ slotSize' = parsed.slotSize
                /\ snap' = parsed.snap
                /\ items' = parsed.items
                /\ plan' = IF plan.phase \in {"saved", "loaded"}
                           THEN [phase |-> "loaded", before |-> plan.before]
                           ELSE [phase |-> "restored"]
    /\ alerted' = ""
    /\ downloaded' = <<>>
    /\ UNCHANGED <<pxPerMin2, selected, draggingPreset, draggingItemId,
                   dragActive, grid, lanes, demoMode, icsJobs, storage>>

(***************************************************************************)
(* The component                                                           *)
(***************************************************************************)
Next ==
    \/ \E t \in ClockTimes, h \in ViewportHeights : SetStartTime(t, h)
    \/ \E t \in ClockTimes, h \in ViewportHeights : SetEndTime(t, h)
    \/ \E s \in SlotSizes : SetSlotSize(s)
    \/ \E b \in BOOLEAN : SetSnap(b)
    \/ ZoomIn
    \/ ZoomOut
    \/ \E h \in ViewportHeights : FitToViewport(h)
    \/ \E key \in PresetKeys : HandleDragStartPreset(key)
    \/ \E k \in 1..MaxItems : HandleDragStartItem(k)
    \/ \E py \in PointerYs : HandleDragEnd(py)
    \/ DragCancel
    \/ \E k \in 1..MaxItems : SelectItem(k)
    \/ \E v \in EditorTitles : EditTitle(v)
    \/ \E t \in ClockTimes : EditStartTime(t)
    \/ \E v \in DurationInputs : EditDuration(v)
    \/ \E c \in EditorColors : EditColor(c)
    \/ \E n \in EditorNotes : EditNotes(n)
    \/ UpsertItem
    \/ DeleteItem
    \/ CloseEditor
    \/ \E p \in DOMAIN FAVORITE_PALETTES : ApplyPalette(p)
    \/ \E d \in DateInputs : SetDate(d)
    \/ ClickLoad
    \/ ClickSave
    \/ ClickText
    \/ ClickICS

Spec == Init /\ [][Next]_vars

(***************************************************************************)
(* GridSpec: the pointer conversion of handleDragEnd under every drawn     *)
(* setting.  The settings are drawn into the component's own variables;    *)
(* grid records what a drag end at py computes.                            *)
(***************************************************************************)
\* The part of the state the pure-function specifications leave at its default.
outsideDefaults ==
    /\ demoMode = TRUE
    /\ date = Today
    /\ alerted = ""
    /\ downloaded = <<>>
    /\ icsJobs = <<>>
    /\ storage = <<>>
    /\ plan = NoPlan

GridClockTimes == {<<0, 0>>, <<8, 30>>, <<11, 0>>, <<12, 37>>, <<20, 0>>, <<23, 59>>}
GridPointerYs == {-100000, -1, 0, 1, 137, 275, 1079, 100000}

componentFrame ==
    UNCHANGED <<startTime, endTime, totalMinutes, slotSize, snap, pxPerMin2,
                items, selected, draggingPreset, draggingItemId, dragActive,
                steps, demoMode, date, alerted, downloaded, icsJobs, storage,
                plan>>

GridInit ==
    /\ startTime \in GridClockTimes
    /\ endTime \in GridClockTimes
    /\ totalMinutes = totalMinutesOf(startTime, endTime)
    /\ slotSize \in SlotSizes
    /\ snap \in BOOLEAN
    /\ pxPerMin2 \in 2..MaxPx2
    /\ items = <<>>
    /\ selected = <<>>
    /\ draggingPreset = <<>>
    /\ draggingItemId = 0
    /\ dragActive = FALSE
    /\ grid = [phase |-> "ready"]
    /\ lanes = NoLanes
    /\ steps = 0
    /\ outsideDefaults

\* Lines 267-269 of handleDragEnd at pointer py.
ConvertPointer(py) ==
    /\ grid.phase = "ready"
    /\ grid' = [phase |-> "dropped",
                py |-> py,
                offsetMin |-> toOffsetMinutes(py, totalMinutes, pxPerMin2),
                stored |-> dropOffset(py)]
    /\ lanes' = lanes
    /\ componentFrame

GridNext == \E py \in GridPointerYs : ConvertPointer(py)

GridSpec == GridInit /\ [][GridNext]_vars

(***************************************************************************)
(* SnapSpec: the snap of handleDragEnd applied once and again.             *)
(***************************************************************************)
SnapInit ==
    /\ startTime = <<11, 0>>
    /\ endTime = <<20, 0>>
    /\ totalMinutes = totalMinutesOf(<<11, 0>>, <<20, 0>>)
    /\ slotSize \in SlotSizes
    /\ snap = TRUE
    /\ pxPerMin2 = 2
    /\ items = <<>>
    /\ selected = <<>>
    /\ draggingPreset = <<>>
    /\ draggingItemId = 0
    /\ dragActive = FALSE
    /\ grid = [phase |-> "ready"]
    /\ lanes = NoLanes
    /\ steps = 0
    /\ outsideDefaults

SnapOnce(x) ==
    /\ grid.phase = "ready"
    /\ grid' = [phase |-> "snapped", x |-> x, y |-> snapOffset(x, slotSize)]
    /\ lanes' = lanes
    /\ componentFrame

SnapAgain ==
    /\ grid.phase = "snapped"
    /\ grid' = [phase |-> "resnapped", x |-> grid.x, y |-> grid.y,
                z |-> snapOffset(grid.y, slotSize)]
    /\ lanes' = lanes
    /\ componentFrame

SnapNext ==
    \/ \E x \in (-SnapRange)..SnapRange : SnapOnce(x)
    \/ SnapAgain

SnapSpec == SnapInit /\ [][SnapNext]_vars

(***************************************************************************)
(* LaneSpec: laneLayout over every drawn item list.                        *)
(***************************************************************************)
LaneStarts == {0, 10, 20, 30, 40}
LaneDurations == {10, 20, 30, 50}

laneItem(k, startMin, durationMin) ==
    [id |-> k, title |-> "Ceremony", startMin |-> startMin,
     durationMin |-> durationMin, color |-> "#01363b", notes |-> ""]

LaneItemLists ==
    UNION {
        {[k \in 1..n |-> laneItem(k, f[k][1], f[k][2])] :
            f \in [1..n -> LaneStarts \X LaneDurations]} :
        n \in 0..MaxLaneItems}

LaneInit ==
    /\ startTime = <<11, 0>>
    /\ endTime = <<20, 0>>
    /\ totalMinutes = totalMinutesOf(<<11, 0>>, <<20, 0>>)
    /\ slotSize = 10
    /\ snap = TRUE
    /\ pxPerMin2 = 2
    /\ items \in LaneItemLists
    /\ selected = <<>>
    /\ draggingPreset = <<>>
    /\ draggingItemId = 0
    /\ dragActive = FALSE
    /\ grid = NoGrid
    /\ lanes = [phase |-> "stale"]
    /\ steps = 0
    /\ outsideDefaults

\* The render after setItems: the memo recomputes.
LaneRender ==
    /\ lanes.phase = "stale"
    /\ lanes' = [phase |-> "done", layout |-> laneLayout(items)]
    /\ grid' = grid
    /\ componentFrame

LaneNext == LaneRender

LaneSpec == LaneInit /\ [][LaneNext]_vars

(***************************************************************************)
(* ExportSpec: the build with demoMode off, in which the Text and .ics     *)
(* buttons reach exportText and exportICS.                                 *)
(***************************************************************************)
ExportInit ==
    /\ startTime = <<11, 0>>
    /\ endTime = <<20, 0>>
    /\ totalMinutes = totalMinutesOf(<<11, 0>>, <<20, 0>>)
    /\ slotSize = 15
    /\ snap = TRUE
    /\ \E h \in ViewportHeights :
           pxPerMin2 = fitPxPerMin2(h, totalMinutesOf(<<11, 0>>, <<20, 0>>))
    /\ items = <<>>
    /\ selected = <<>>
    /\ draggingPreset = <<>>
    /\ draggingItemId = 0
    /\ dragActive = FALSE
    /\ grid = NoGrid
    /\ lanes = NoLanes
    /\ steps = 0
    /\ demoMode = FALSE
    /\ date = Today
    /\ alerted = ""
    /\ downloaded = <<>>
    /\ icsJobs = <<>>
    /\ storage = <<>>
    /\ plan = NoPlan

ExportNext ==
    \/ \E key \in PresetKeys : HandleDragStartPreset(key)
    \/ \E k \in 1..MaxItems : HandleDragStartItem(k)
    \/ \E py \in PointerYs : HandleDragEnd(py)
    \/ \E k \in 1..MaxItems : SelectItem(k)
    \/ \E v \in EditorTitles : EditTitle(v)
    \/ \E n \in EditorNotes : EditNotes(n)
    \/ UpsertItem
    \/ DeleteItem
    \/ \E d \in DateInputs : SetDate(d)
    \/ ClickText
    \/ ClickICS
    \/ \E error \in EncodeOutcomes : ResumeICS(error)

ExportSpec == ExportInit /\ [][ExportNext]_vars

(***************************************************************************)
(* PlanSpec: Save and Load of DayFlowPreview.tsx with demoMode off, from   *)
(* every drawn state and every drawn content of localStorage.              *)
(***************************************************************************)
PlanStartTimes == {<<8, 30>>, <<11, 0>>}
PlanEndTimes == {<<20, 0>>}
PlanSlotSizes == {15, 30}
PlanDates == {Today, "2025-06-15"}
PlanStarts == {0, 120}

PlanItemLists ==
    UNION {
        {[k \in 1..n |-> laneItem(k, f[k], 30)] : f \in [1..n -> PlanStarts]} :
        n \in 0..MaxItems}

\* A plan some other writer left under the key: every field parses, the slot
\* size and the item are out of range.
ForeignPlan ==
    [date |-> "2025-06-15", startTime |-> <<11, 0>>, endTime |-> <<12, 0>>,
     slotSize |-> 7, snap |-> TRUE,
     items |-> <<[id |-> MaxItems + 2, title |-> "Party", startMin |-> 5000,
                  durationMin |-> 1, color |-> "#000000", notes |-> ""]>>]

\* A stored object without the date and items keys.
PartialRaw ==
    [kind |-> "json",
     value |-> [startTime |-> jstr(<<11, 0>>), endTime |-> jstr(<<12, 0>>),
                slotSize |-> jnum(30), snap |-> jbool(FALSE)]]

StoredRaws ==
    {<<>>, <<[kind |-> "garbage"]>>, <<[kind |-> "null"]>>, <<PartialRaw>>,
     <<stringify(ForeignPlan)>>}

PlanInit ==
    /\ startTime \in PlanStartTimes
    /\ endTime \in PlanEndTimes
    /\ totalMinutes = totalMinutesOf(startTime, endTime)
    /\ slotSize \in PlanSlotSizes
    /\ snap \in BOOLEAN
    /\ pxPerMin2 = 4
    /\ items \in PlanItemLists
    /\ selected = <<>>
    /\ draggingPreset = <<>>
    /\ draggingItemId = 0
    /\ dragActive = FALSE
    /\ grid = NoGrid
    /\ lanes = NoLanes
    /\ steps = 0
    /\ demoMode = FALSE
    /\ date \in PlanDates
    /\ alerted = ""
    /\ downloaded = <<>>
    /\ icsJobs = <<>>
    /\ storage \in StoredRaws
    /\ plan = NoPlan

PlanNext ==
    \/ \E s \in PlanSlotSizes : SetSlotSize(s)
    \/ \E key \in PresetKeys : HandleDragStartPreset(key)
    \/ \E py \in PointerYs : HandleDragEnd(py)
    \/ \E k \in 1..MaxItems : SelectItem(k)
    \/ \E v \in DurationInputs : EditDuration(v)
    \/ UpsertItem
    \/ DeleteItem
    \/ SavePlan
    \/ LoadPlan

PlanSpec == PlanInit /\ [][PlanNext]_vars

(***************************************************************************)
(* LabelSpec: timeLabelFromOffset over every drawn day start, date field   *)
(* and offset (the ruler's ticks and the items' starts).                   *)
(***************************************************************************)
LabelOffsets == {0, 1, 59, 60, 61, 180, 719, 720, 779, 1080, 1439, 1440}

LabelInit ==
    /\ startTime \in GridClockTimes
    /\ endTime = <<20, 0>>
    /\ totalMinutes = totalMinutesOf(startTime, endTime)
    /\ slotSize = 15
    /\ snap = TRUE
    /\ pxPerMin2 = 2
    /\ items = <<>>
    /\ selected = <<>>
    /\ draggingPreset = <<>>
    /\ draggingItemId = 0
    /\ dragActive = FALSE
    /\ grid = [phase |-> "ready"]
    /\ lanes = NoLanes
    /\ steps = 0
    /\ demoMode = TRUE
    /\ date \in {Today} \cup DateInputs
    /\ alerted = ""
    /\ downloaded = <<>>
    /\ icsJobs = <<>>
    /\ storage = <<>>
    /\ plan = NoPlan

ShowLabel(offsetMin) ==
    /\ grid.phase = "ready"
    /\ grid' = [phase |-> "labelled", offsetMin |-> offsetMin,
                label |-> timeLabelFromOffset(date, startTime, offsetMin)]
    /\ lanes' = lanes
    /\ componentFrame

LabelNext == \E offsetMin \in LabelOffsets : ShowLabel(offsetMin)

LabelSpec == LabelInit /\ [][LabelNext]_vars

(***************************************************************************)
(* FieldsSpec: the timeline with an editor in which only title, color and  *)
(* notes are typed.                                                       *)
(***************************************************************************)
FieldsNext ==
    \/ \E key \in PresetKeys : HandleDragStartPreset(key)
    \/ \E k \in 1..MaxItems : HandleDragStartItem(k)
    \/ \E py \in PointerYs : HandleDragEnd(py)
    \/ \E k \in 1..MaxItems : SelectItem(k)
    \/ \E v \in EditorTitles : EditTitle(v)
    \/ \E c \in EditorColors : EditColor(c)
    \/ \E n \in EditorNotes : EditNotes(n)
    \/ UpsertItem
    \/ DeleteItem
    \/ CloseEditor
    \/ \E p \in DOMAIN FAVORITE_PALETTES : ApplyPalette(p)

FieldsSpec == Init /\ [][FieldsNext]_vars

(***************************************************************************)
(* EditPlanSpec: the editor of DayFlowPreview.tsx with only title, color   *)
(* and notes typed, next to its Save and Load buttons (the modal has no    *)
(* focus trap, so the header buttons stay reachable while it is open).     *)
(***************************************************************************)
EditPlanNext ==
    \/ \E k \in 1..MaxItems : SelectItem(k)
    \/ \E v \in EditorTitles : EditTitle(v)
    \/ \E c \in EditorColors : EditColor(c)
    \/ \E n \in EditorNotes : EditNotes(n)
    \/ UpsertItem
    \/ DeleteItem
    \/ CloseEditor
    \/ SavePlan
    \/ LoadPlan

EditPlanSpec == PlanInit /\ [][EditPlanNext]_vars

(***************************************************************************)
(* Properties                                                              *)
(***************************************************************************)
\* A drag end that ran the handler (a cancelled drag leaves the markers set).
DropOfPreset ==
    /\ dragActive /\ ~dragActive'
    /\ draggingPreset # <<>> /\ draggingPreset' = <<>>

DropOfItem ==
    /\ dragActive /\ ~dragActive'
    /\ draggingItemId # 0 /\ draggingItemId' = 0

InRange(it) ==
    /\ 0 <= it.startMin
    /\ it.startMin + it.durationMin <= totalMinutes
    /\ 5 <= it.durationMin
    /\ it.durationMin <= 720

\* C1: after every operation every item satisfies 0 <= start,
\* start + duration <= totalMinutes and 5 <= duration <= 720.
C1_RangeInvariant == \A k \in DOMAIN items : InRange(items[k])

\* C2: a preset drop under capacity appends one item after the existing ones,
\* with its duration in [5, 720] and its start in [0, totalMinutes - duration].
C2_InsertClamped ==
    [][(DropOfPreset /\ Len(items) < MaxItems) =>
          /\ Len(items') = Len(items) + 1
          /\ \A k \in DOMAIN items : items'[k].id = items[k].id
          /\ LET it == items'[Len(items')]
             IN  /\ it.durationMin \in 5..720
                 /\ 0 <= it.startMin
                 /\ it.startMin <= totalMinutes - it.durationMin]_vars

\* C3: dropping an existing item sets its start to the pointer offset clamped
\* into [0, totalMinutes - its duration], changes nothing else of it, and leaves
\* the other items and the item count as they were.
C3_MoveInPlace ==
    [][(DropOfItem /\ \E k \in DOMAIN items : items[k].id = draggingItemId) =>
          /\ Len(items') = Len(items)
          /\ \A k \in DOMAIN items :
                IF items[k].id = draggingItemId
                THEN \E py \in PointerYs :
                        items'[k] =
                          [items[k] EXCEPT !.startMin =
                              clamp(dropOffset(py), 0,
                                    totalMinutes - items[k].durationMin)]
                ELSE items'[k] = items[k]]_vars

\* The move alone (no stale preset marker) does what C3 says.
MoveAloneInPlace ==
    [][(DropOfItem /\ draggingPreset = <<>>
            /\ \E k \in DOMAIN items : items[k].id = draggingItemId) =>
          /\ Len(items') = Len(items)
          /\ \A k \in DOMAIN items :
                IF items[k].id = draggingItemId
                THEN \E py \in PointerYs :
                        items'[k] =
                          [items[k] EXCEPT !.startMin =
                              clamp(dropOffset(py), 0,
                                    totalMinutes - items[k].durationMin)]
                ELSE items'[k] = items[k]]_vars

\* C4: a saved resize leaves the duration in [5, 720] and, where the item's
\* start leaves room for the shortest duration, start + duration within the day.
C4_ResizeClamped ==
    [][(/\ selected # <<>> /\ selected' = <<>>
        /\ Len(items') = Len(items)) =>
          \A k \in DOMAIN items :
              (/\ items[k].id = selected[1].id
               /\ items'[k].durationMin # items[k].durationMin
               /\ items'[k].startMin >= 0
               /\ items'[k].startMin + 5 <= totalMinutes) =>
                  /\ items'[k].durationMin \in 5..720
                  /\ items'[k].startMin + items'[k].durationMin <= totalMinutes]_vars

\* C5: totalMinutes is endTime - startTime clamped into [60, 1080], whatever the
\* two clock times are.
C5_TotalClamped ==
    LET d == (endTime[1] * 60 + endTime[2]) - (startTime[1] * 60 + startTime[2])
    IN  /\ totalMinutes = (IF d < 60 THEN 60 ELSE IF d > 1080 THEN 1080 ELSE d)
        /\ totalMinutes \in 60..1080

\* C5 witness: the day end was set before the day start, and the total is 60.
C5_Witness ==
    /\ steps > 0
    /\ endTime[1] * 60 + endTime[2] < startTime[1] * 60 + startTime[2]
    /\ totalMinutes = 60

\* C6: the pointer conversion of a drop yields an offset within
\* [0, totalMinutes], for every pointer position and every setting.
C6_OffsetInRange ==
    grid.phase = "dropped" =>
        /\ grid.offsetMin >= 0
        /\ grid.offsetMin <= totalMinutes

\* C6 witness: a pointer far below the grid, at a fractional pxPerMin, gives
\* exactly totalMinutes.
C6_Witness ==
    /\ grid.phase = "dropped"
    /\ 2 * grid.py > totalMinutes * pxPerMin2
    /\ pxPerMin2 % 2 = 1
    /\ grid.offsetMin = totalMinutes

\* C7: snapping an already snapped offset with the same slot size changes nothing.
C7_SnapIdempotent ==
    grid.phase = "resnapped" => grid.z = grid.y

\* C7 witness: a negative offset off the slot grid was snapped twice.
C7_Witness ==
    /\ grid.phase = "resnapped"
    /\ grid.x < 0
    /\ grid.x % slotSize # 0
    /\ grid.y # grid.x

Abs(n) == IF n < 0 THEN -n ELSE n

\* C8: for x >= 0 the snapped offset is a multiple of the slot size, no other
\* multiple is strictly closer to x, and on a tie it is the upper one, as
\* Math.round gives.
C8_SnapNearest ==
    (grid.phase \in {"snapped", "resnapped"} /\ grid.x >= 0) =>
        /\ grid.y % slotSize = 0
        /\ \A k \in 0..((SnapRange \div slotSize) + 1) :
               Abs(grid.y - grid.x) <= Abs(k * slotSize - grid.x)
        /\ (2 * (grid.x % slotSize) = slotSize => grid.y > grid.x)

\* C8 witness: an offset exactly between two slots was snapped.
C8_Witness ==
    /\ grid.phase = "snapped"
    /\ grid.x > 0
    /\ 2 * (grid.x % slotSize) = slotSize
    /\ grid.y = grid.x + slotSize \div 2

Overlap(a, b) ==
    /\ a.startMin < b.startMin + b.durationMin
    /\ b.startMin < a.startMin + a.durationMin

\* C9: two distinct items whose ranges [start, start + duration) intersect
\* never get the same lane.
C9_NoOverlapInLane ==
    lanes.phase = "done" =>
        \A i, j \in DOMAIN items :
            (i # j /\ Overlap(items[i], items[j])) =>
                lanes.layout.byId[items[i].id] # lanes.layout.byId[items[j].id]

\* C9 witness: three items, two of them overlapping and so in different lanes,
\* the third reusing the first lane after the item that ended there.
C9_Witness ==
    /\ lanes.phase = "done"
    /\ Len(items) = 3
    /\ Overlap(items[1], items[2])
    /\ lanes.layout.byId[items[1].id] # lanes.layout.byId[items[2].id]
    /\ ~Overlap(items[1], items[3])
    /\ Overlap(items[2], items[3])
    /\ lanes.layout.byId[items[1].id] = lanes.layout.byId[items[3].id]

\* The largest number of items active at one instant (0 for no items).
MaxActive(list) ==
    LET active(i) ==
            Cardinality({j \in DOMAIN list :
                /\ list[j].startMin <= list[i].startMin
                /\ list[i].startMin < list[j].startMin + list[j].durationMin})
    IN  IF list = <<>> THEN 0
        ELSE CHOOSE n \in 1..Len(list) :
                 /\ \E i \in DOMAIN list : active(i) = n
                 /\ \A i \in DOMAIN list : active(i) <= n

\* C10 as stated: lanesCount is the largest number of items active at one instant.
C10_CountIsMaxActive ==
    lanes.phase = "done" => lanes.layout.lanesCount = MaxActive(items)

\* C10 amended: lanesCount is the largest number of items active at one
\* instant, and 1 when there are no items.
C10_CountIsMaxActiveOrOne ==
    lanes.phase = "done" =>
        lanes.layout.lanesCount = Max(1, MaxActive(items))

\* C10 witness: three mutually overlapping items take three lanes.
C10_Witness ==
    /\ lanes.phase = "done"
    /\ Len(items) = 3
    /\ \A i, j \in DOMAIN items : Overlap(items[i], items[j])
    /\ lanes.layout.lanesCount = 3

NoItemHas(id) == \A k \in DOMAIN items : items[k].id # id

\* C11: a move or an editor save that names an id no item has reports NotFound
\* (some alert reaches the user) and leaves the item list as it was.
C11_NotFoundReported ==
    [][((UpsertItem /\ NoItemHas(selected[1].id))
            \/ (DropOfItem /\ NoItemHas(draggingItemId))) =>
          /\ items' = items
          /\ alerted' # ""]_vars

\* C12: a remove of an id no item has reports NotFound; any other remove
\* deletes exactly the item with that id and keeps the rest in their order.
\* (The claim's last part, that the item never returns, is not needed to
\* refute it.)
C12_RemoveExact ==
    [][DeleteItem =>
          IF NoItemHas(selected[1].id)
          THEN items' = items /\ alerted' # ""
          ELSE /\ Len(items') = Len(items) - 1
               /\ \A k \in DOMAIN items' : items'[k].id # selected[1].id
               /\ \E gone \in DOMAIN items :
                     /\ items[gone].id = selected[1].id
                     /\ \A k \in DOMAIN items' :
                           items'[k] = items[IF k < gone THEN k ELSE k + 1]]_vars

\* C13: a preset drop on a full list leaves the list as it was and reports
\* CapacityExceeded (some alert reaches the user); drops never grow the list
\* beyond the maximum.
C13_CapacityReported ==
    [][(DropOfPreset /\ demoMode /\ Len(items) >= MaxItems) =>
          /\ items' = items
          /\ Len(items') <= MaxItems
          /\ alerted' # ""]_vars

\* The lines of a text file follow list: one line per item, by start
\* ascending, items of one start in the order of the list.
LinesFollow(lines, list, day, start) ==
    /\ Len(lines) = Len(list)
    /\ \E p \in [DOMAIN list -> DOMAIN list] :
          /\ \A k, l \in DOMAIN list : k # l => p[k] # p[l]
          /\ \A k \in DOMAIN list : lines[k] = textLine(day, start, list[p[k]])
          /\ \A k, l \in DOMAIN list :
                k < l =>
                    \/ list[p[k]].startMin < list[p[l]].startMin
                    \/ /\ list[p[k]].startMin = list[p[l]].startMin
                       /\ p[k] < p[l]

\* C14: the text export has exactly one entry per item, ordered by start
\* ascending, items of equal start in their insertion order.
C14_TextOrdered ==
    (downloaded # <<>> /\ downloaded[1].kind = "text") =>
        LinesFollow(downloaded[1].lines, items, date, startTime)

\* C14 witness: a text file of two items dropped on the same start, the
\* shorter one first, and listed in that order.
C14_Witness ==
    /\ downloaded # <<>>
    /\ downloaded[1].kind = "text"
    /\ Len(items) = 2
    /\ items[1].startMin = items[2].startMin
    /\ items[1].durationMin < items[2].durationMin
    /\ downloaded[1].lines[1].durationMin = items[1].durationMin

\* The minute of the day a 12-hour label names.
MinuteOfDay(label) ==
    ((label.hour % 12) + (IF label.meridiem = "PM" THEN 12 ELSE 0)) * 60
        + label.minute

\* C15: the label of an offset names the minute of the day
\* (dayStart + offset) mod 1440 on the 12-hour clock.
C15_LabelIsStartPlusOffset ==
    grid.phase = "labelled" =>
        /\ grid.label.hour \in 1..12
        /\ grid.label.minute \in 0..59
        /\ MinuteOfDay(grid.label) =
               (startTime[1] * 60 + startTime[2] + grid.offsetMin) % 1440

\* C15 witness: day start 11:00 and offset 180 give 2:00 PM.
C15_Witness ==
    /\ grid.phase = "labelled"
    /\ startTime = <<11, 0>>
    /\ grid.offsetMin = 180
    /\ grid.label = [hour |-> 2, minute |-> 0, meridiem |-> "PM"]

\* A suspended exportICS ran to its end in this step.
JobFinishes == Len(icsJobs') < Len(icsJobs)

\* C16: every event of the calendar file starts at the schedule date, day
\* start plus the item's start offset, and ends the item's duration later.
C16_EventAtStartPlusOffset ==
    [][(JobFinishes /\ downloaded' # <<>>
            /\ Head(icsJobs).date \in DOMAIN DayNumber) =>
          LET job == Head(icsJobs)
              events == downloaded'[1].events
              abs(dt) == dt.day * 1440 + dt.hours * 60 + dt.minutes
              dayStart == DayNumber[job.date] * 1440
                              + job.startTime[1] * 60 + job.startTime[2]
          IN  /\ Len(events) = Len(job.items)
              /\ \A k \in DOMAIN job.items :
                    /\ events[k].start.valid
                    /\ abs(events[k].start) = dayStart + job.items[k].startMin
                    /\ abs(events[k].end) =
                           abs(events[k].start) + job.items[k].durationMin]_vars

\* C17: when the encoding reports an error, the export alerts that error and
\* downloads nothing.
C17_ExportFailure ==
    [][\A error \in EncodeOutcomes \ {""} :
          ResumeICS(error) => (alerted' = error /\ downloaded' = <<>>)]_vars

\* C17 witness: an export over the cleared date field ended in the alert of
\* the encoder's error, with no file.
C17_Witness ==
    /\ alerted \in EncodeOutcomes \ {""}
    /\ downloaded = <<>>
    /\ icsJobs = <<>>
    /\ date = ""
    /\ items # <<>>

\* C18: the calendar file holds the events of the item list as it was when
\* the export was called, whatever happened to the list while it was suspended.
C18_SnapshotAtCall ==
    [][(JobFinishes /\ downloaded' # <<>>) =>
          LET job == Head(icsJobs)
              events == downloaded'[1].events
          IN  /\ Len(events) = Len(job.items)
              /\ \A k \in DOMAIN job.items :
                    /\ events[k].title = job.items[k].title
                    /\ events[k] =
                           icsEvent(job.date, job.startTime, job.items[k])]_vars

\* C18 witness: a calendar file of one event, while the list has two items:
\* the second was dropped during the export.
C18_Witness ==
    /\ downloaded # <<>>
    /\ downloaded[1].kind = "ics"
    /\ Len(downloaded[1].events) = 1
    /\ Len(items) = 2
    /\ downloaded[1].events[1].title = items[1].title

\* C19: a Load after a Save brings back the config and the items that were
\* saved, whatever changed in between.
C19_RoundTrip ==
    [][(LoadPlan /\ plan.phase \in {"saved", "loaded"}) =>
          /\ date' = plan.before.date
          /\ startTime' = plan.before.startTime
          /\ endTime' = plan.before.endTime
          /\ totalMinutes' = plan.before.totalMinutes
          /\ slotSize' = plan.before.slotSize
          /\ snap' = plan.before.snap
          /\ items' = plan.before.items]_vars

\* C19 witness: a saved state with items is back after a Load.
C19_Witness ==
    /\ plan.phase = "loaded"
    /\ plan.before.items # <<>>
    /\ items = plan.before.items
    /\ slotSize = plan.before.slotSize
    /\ startTime = plan.before.startTime
    /\ alerted = ""

\* C20: after a Load of a stored plan that parses, every item is within the
\* range invariants and the slot size is one of the six allowed.
C20_RestoreValidates ==
    [][(LoadPlan /\ storage # <<>> /\ storage[1].kind = "json") =>
          /\ slotSize' \in SlotSizes
          /\ \A k \in DOMAIN items' :
                /\ 0 <= items'[k].startMin
                /\ items'[k].startMin + items'[k].durationMin <= totalMinutes'
                /\ items'[k].durationMin \in 5..720]_vars

PlanKeys == {"date", "startTime", "endTime", "slotSize", "snap", "items"}

StructurallyInvalid(raw) ==
    \/ raw.kind # "json"
    \/ ~(PlanKeys \subseteq DOMAIN raw.value)

\* C21: a Load of a stored value that does not parse, or that lacks an
\* expected field, reports InvalidConfig (some alert reaches the user) and
\* leaves date, day start, day end, slot size, snap flag and items as they were.
C21_InvalidConfigAborts ==
    [][(LoadPlan /\ storage # <<>> /\ StructurallyInvalid(storage[1])) =>
          /\ UNCHANGED <<date, startTime, endTime, slotSize, snap, items>>
          /\ alerted' # ""]_vars

IdsOf(list) == [k \in DOMAIN list |-> list[k].id]

C23_UpdateFieldsFrame ==
    [][UpsertItem =>
          IF NoItemHas(selected[1].id)
          THEN items' = items /\ alerted' # ""
          ELSE /\ Len(items') = Len(items)
               /\ \A k \in DOMAIN items :
                     IF items[k].id = selected[1].id
                     THEN /\ items'[k].id = items[k].id
                          /\ items'[k].startMin = items[k].startMin
                          /\ items'[k].durationMin = items[k].durationMin
                     ELSE items'[k] = items[k]]_vars

\* C30: a Save keeps the start a drag gave the item after the editor was
\* opened, and the color a palette gave it unless the color was typed in the
\* editor (the editor of FieldsSpec never types a start).
C30_SaveKeepsLaterChange ==
    [][UpsertItem =>
          \A k \in DOMAIN items :
              items[k].id = selected[1].id =>
                  /\ items'[k].startMin = items[k].startMin
                  /\ (selected[1].color \notin EditorColors =>
                          items'[k].color = items[k].color)]_vars

\* The lane laneLayout gave the k-th item of the list.
LaneOf(k) == lanes.layout.byId[items[k].id]

\* The k-th item is processed before the l-th: by start, then the longer
\* first, then by place in the list.
Before(k, l) ==
    \/ items[k].startMin < items[l].startMin
    \/ /\ items[k].startMin = items[l].startMin
       /\ items[k].durationMin > items[l].durationMin
    \/ /\ items[k].startMin = items[l].startMin
       /\ items[k].durationMin = items[l].durationMin
       /\ k < l

\* C24: each item gets the lowest lane in which every item processed before
\* it has ended at or before its start, and a new lane (the next index) only
\* when no lane qualifies.
C24_FirstFit ==
    lanes.phase = "done" =>
        \A i \in DOMAIN items :
            LET earlier == {j \in DOMAIN items : Before(j, i)}
                opened == Cardinality({LaneOf(j) : j \in earlier})
                exists(l) == \E j \in earlier : LaneOf(j) = l
                fits(l) == \A j \in earlier :
                               LaneOf(j) = l =>
                                   items[j].startMin + items[j].durationMin
                                       <= items[i].startMin
            IN  /\ LaneOf(i) \in 0..opened
                /\ (LaneOf(i) < opened => exists(LaneOf(i)) /\ fits(LaneOf(i)))
                /\ \A l \in 0..(LaneOf(i) - 1) : exists(l) /\ ~fits(l)

\* C24 witness: [0,30) and [30,40) touch and share lane 0.
C24_Witness ==
    /\ lanes.phase = "done"
    /\ Len(items) = 2
    /\ items[1].startMin = 0 /\ items[1].durationMin = 30
    /\ items[2].startMin = 30
    /\ LaneOf(1) = 0
    /\ LaneOf(2) = 0

\* C25: of two items with one start and different durations the longer one
\* gets the strictly lower lane, whatever their order in the list.
C25_LongerFirst ==
    lanes.phase = "done" =>
        \A i, j \in DOMAIN items :
            (/\ items[i].startMin = items[j].startMin
             /\ items[i].durationMin > items[j].durationMin) =>
                LaneOf(i) < LaneOf(j)

\* C25 witness: the shorter item comes first in the list and still gets the
\* higher lane.
C25_Witness ==
    /\ lanes.phase = "done"
    /\ Len(items) = 2
    /\ items[1].startMin = items[2].startMin
    /\ items[1].durationMin < items[2].durationMin
    /\ LaneOf(2) = 0
    /\ LaneOf(1) = 1

\* C26 as stated: with snap on, the start a drop stores (for a new item and
\* for a moved one) is a multiple of the slot size; with snap off it is the
\* unsnapped pointer offset.
C26_DropStoresSnapped ==
    [][\A py \in PointerYs :
          HandleDragEnd(py) =>
              LET raw == toOffsetMinutes(py, totalMinutes, pxPerMin2)
                  asStated(startMin) == IF snap THEN startMin % slotSize = 0
                                        ELSE startMin = raw
              IN  /\ (draggingPreset # <<>> /\ Len(items') = Len(items) + 1) =>
                         asStated(items'[Len(items')].startMin)
                  /\ \A k \in DOMAIN items :
                         items[k].id = draggingItemId =>
                             asStated(items'[k].startMin)]_vars

\* C26 amended: a new item is stored as stated; a moved item is stored as
\* stated or at the boundary max(0, totalMinutes - duration) it was clamped to.
C26_DropStoresSnappedOrBoundary ==
    [][\A py \in PointerYs :
          HandleDragEnd(py) =>
              LET raw == toOffsetMinutes(py, totalMinutes, pxPerMin2)
                  asStated(startMin) == IF snap THEN startMin % slotSize = 0
                                        ELSE startMin = raw
              IN  /\ (draggingPreset # <<>> /\ Len(items') = Len(items) + 1) =>
                         asStated(items'[Len(items')].startMin)
                  /\ \A k \in DOMAIN items :
                         items[k].id = draggingItemId =>
                             \/ asStated(items'[k].startMin)
                             \/ items'[k].startMin =
                                    Max(0, totalMinutes - items[k].durationMin)]_vars

\* C26 witness: after an insert and a move to the bottom, with snap on, the
\* 5-minute item sits at totalMinutes - 5, off the slot grid.
C26_Witness ==
    /\ steps = 4
    /\ snap
    /\ ~dragActive
    /\ Len(items) = 1
    /\ items[1].durationMin = 5
    /\ items[1].startMin = totalMinutes - 5
    /\ items[1].startMin % slotSize # 0

\* C27 as stated: the offset a drop computes is within [0, totalMinutes].
C27_SnappedWithinTotal ==
    grid.phase = "dropped" =>
        /\ grid.stored >= 0
        /\ grid.stored <= totalMinutes

\* C27 amended: the offset is at least 0 and beyond totalMinutes by at most
\* half a slot, and within totalMinutes when that is a multiple of the slot.
C27_SnappedWithinHalfSlot ==
    grid.phase = "dropped" =>
        /\ grid.stored >= 0
        /\ 2 * (grid.stored - totalMinutes) <= slotSize
        /\ (totalMinutes % slotSize = 0 => grid.stored <= totalMinutes)

\* C27 witness: a drop at the bottom of a day that is not a multiple of the
\* slot size snaps up, beyond the day.
C27_Witness ==
    /\ grid.phase = "dropped"
    /\ snap
    /\ totalMinutes % slotSize # 0
    /\ grid.offsetMin = totalMinutes
    /\ grid.stored > totalMinutes

\* C28: when a change of day start or day end makes totalMinutes smaller,
\* every item (all within the day before) is within the new day.
C28_ShrinkKeepsItemsInDay ==
    [][(/\ totalMinutes' < totalMinutes
        /\ \A k \in DOMAIN items : InRange(items[k])) =>
          \A k \in DOMAIN items' :
              items'[k].startMin + items'[k].durationMin <= totalMinutes']_vars

\* C29: at a drag end at most one of the two drag markers is set, the drop
\* makes at most one change (an insert or a move), and both markers are
\* cleared after it.
C29_OneMarkerPerDrop ==
    [][\A py \in PointerYs :
          HandleDragEnd(py) =>
              /\ ~(draggingPreset # <<>> /\ draggingItemId # 0)
              /\ draggingPreset' = <<>>
              /\ draggingItemId' = 0
              /\ \/ Len(items') = Len(items)
                 \/ SubSeq(items', 1, Len(items)) = items]_vars

====
